---------------------------- MODULE Spec2Model ----------------------------
(***************************************************************************)
(* Model of the ICESat-2 data-correction notebook (data_correction.ipynb). *)
(*                                                                         *)
(* The notebook is a straight-line program of cells.  The cells that make  *)
(* up the correction pipeline are modelled, in execution order:            *)
(*   cell-5   extraction of one record per beam (fill values, projection,  *)
(*            quality filter, append to D6)                                *)
(*   cell-13  polygon selection and floating-ice mask                      *)
(*   cell-27  2016 mean of the firn-air grid                               *)
(*   cell-30  bounding-box subset of the grid                              *)
(*   cell-31  interpolation of firn air onto every record                  *)
(*   cell-33  height above mean sea level and thickness                    *)
(*   cell-36  surface mass balance in metres of ice per year               *)
(*   cell-37  regional time series over Byrd, anomaly, cumulative sum      *)
(*   cell-39  the same over Larsen C                                       *)
(*                                                                         *)
(* Floating-point numbers are modelled as exact rationals <<n, d>> in      *)
(* lowest terms with d > 0; the pair <<0, 0>> is NaN (the missing marker). *)
(* Rounding error of IEEE arithmetic is not modelled.  A missing value of   *)
(* a grid is a NaN of a plain float array.                                 *)
(***************************************************************************)
EXTENDS Integers, Sequences, FiniteSets, TLC

VARIABLES
    pc,             \* the cell (or loop) the notebook executes next
    err,            \* the exception that ended the run, "none" while running
    files,          \* input: the beams of the HDF5 files, in loop order
    k,              \* cell-5: index of the next beam to extract
    temp,           \* cell-5: the dict of the beam being extracted
    D6,             \* the list of beam records
    polygon,        \* the global name `polygon`
    poly_mpl,       \* the matplotlib path built from the polygon
    FirnAir,        \* input: firn-air grid, time step -> grid point -> value
    meanFirnAir_16, \* cell-27: 2016 mean per grid point
    xy,             \* cell-30: planar source points of the subset
    mean_fac_byrd,  \* cell-30: source values of the subset
    i,              \* index of the record a `for Di in D6` loop is at
    rho,            \* input: the configured <<rho_ice, rho_ocean>>
    h_MSL,          \* cell-33: h_MSL computed for each record so far
    thickness,      \* cell-33: thickness computed for each record so far
    smb,            \* input: the 'smb' variable of the SMB file, time step -> grid point
    time_smb,       \* input: the time axis of the SMB file, in fractional years
    SMB,            \* cell-36: surface mass balance in metres of ice per year
    mean_fac,       \* cell-37 / cell-39: the array bound to the name mean_fac
    mean_smb        \* cell-37 / cell-39: the array bound to the name mean_smb

\* The state of the time-series cells (cell-36 .. cell-39).
aggVars == <<smb, time_smb, SMB, mean_fac, mean_smb>>

vars == <<pc, err, files, k, temp, D6, polygon, poly_mpl, FirnAir, meanFirnAir_16,
          xy, mean_fac_byrd, i, rho, h_MSL, thickness, aggVars>>

-----------------------------------------------------------------------------
(* Numbers *)

\* Bound on the number of samples of a beam in the single-beam input family.
MaxLen == 2

\* Bound on the number of beams in the multi-beam input family.
MaxBeams == 2

RECURSIVE GCD(_, _)
GCD(a, b) == IF b = 0 THEN a ELSE GCD(b, a % b)

Abs(n) == IF n < 0 THEN -n ELSE n

\* np.NaN
NaN == <<0, 0>>

IsNaN(a) == a[2] = 0

\* The float n/d, in lowest terms.
Rat(n, d) ==
    LET g == GCD(Abs(n), Abs(d))
        s == IF d < 0 THEN -1 ELSE 1
    IN  IF d = 0 THEN NaN ELSE <<s * (n \div g), s * (d \div g)>>

\* The float of an integer literal.
Num(n) == <<n, 1>>

\* IEEE arithmetic: NaN in, NaN out.
Add(a, b) ==
    IF IsNaN(a) \/ IsNaN(b) THEN NaN
    ELSE LET g == GCD(a[2], b[2])
         IN  Rat(a[1] * (b[2] \div g) + b[1] * (a[2] \div g), a[2] * (b[2] \div g))

Neg(a) == IF IsNaN(a) THEN NaN ELSE <<-a[1], a[2]>>

Sub(a, b) == Add(a, Neg(b))

Mul(a, b) ==
    IF IsNaN(a) \/ IsNaN(b) THEN NaN
    ELSE LET g1 == GCD(Abs(a[1]), b[2])
             g2 == GCD(Abs(b[1]), a[2])
         IN  Rat((a[1] \div g1) * (b[1] \div g2), (a[2] \div g2) * (b[2] \div g1))

\* Division by a non-zero float.
Div(a, b) == IF IsNaN(a) \/ IsNaN(b) THEN NaN ELSE Mul(a, Rat(b[2], b[1]))

\* IEEE comparisons: every comparison with NaN is false.
EqIEEE(a, b) == ~IsNaN(a) /\ ~IsNaN(b) /\ a = b
Less(a, b) == ~IsNaN(a) /\ ~IsNaN(b) /\ a[1] * b[2] < b[1] * a[2]

-----------------------------------------------------------------------------
(* numpy arrays: sequences of numbers *)

\* The content of np.empty_like: never read before it is overwritten
\* (cell-13 replaces 'mask', cell-31 replaces 'FAC_interp').
Uninit == <<0, -1>>

empty_like(a) == [j \in 1..Len(a) |-> Uninit]

\* numpy broadcasting of two 1-D shapes.
Broadcastable(a, b) == Len(a) = Len(b) \/ Len(a) = 1 \/ Len(b) = 1

BLen(a, b) == IF Len(a) >= Len(b) THEN Len(a) ELSE Len(b)

At(a, j) == IF Len(a) = 1 THEN a[1] ELSE a[j]

\* a - b, elementwise (defined when Broadcastable(a, b)).
ArrSub_nan0(a, b) ==
    [j \in 1..BLen(a, b) |->
        Sub(IF IsNaN(At(a, j)) THEN Num(0) ELSE At(a, j),
            IF IsNaN(At(b, j)) THEN Num(0) ELSE At(b, j))]

ArrSub(a, b) == [j \in 1..BLen(a, b) |-> Sub(At(a, j), At(b, j))]

\* array - scalar, array / scalar, scalar * array
ArrSubScalar(a, c) == [j \in 1..Len(a) |-> Sub(a[j], c)]
ArrDivScalar(a, c) == [j \in 1..Len(a) |-> Div(a[j], c)]
ScalarMulArr(c, a) == [j \in 1..Len(a) |-> Mul(c, a[j])]

-----------------------------------------------------------------------------
(* cell-5: extraction of the beam records *)

\* The datasets cell-5 reads from each beam group.
datasets == {"h_li", "latitude", "longitude", "atl06_quality_summary",
             "tide_load", "dac", "tide_ocean", "geoid_h"}

\* temp[dataset][temp[dataset] == fill_value] = np.NaN
normalize_dropfirst(a, fill_value) ==
    [j \in 1..Len(a) |-> IF j > 1 /\ EqIEEE(a[j], fill_value) THEN NaN ELSE a[j]]

normalize(a, fill_value) ==
    [j \in 1..Len(a) |-> IF EqIEEE(a[j], fill_value) THEN NaN ELSE a[j]]

\* The datasets loop of one beam: a dataset missing from the file raises
\* KeyError, which is caught and passed, so temp simply lacks that key;
\* a dataset with a '_FillValue' attribute is normalized.
\* beam.data : dataset -> array; beam.fill : dataset -> {} or {fill value}.
ReadTemp(beam) ==
    [d \in DOMAIN beam.data |->
        IF beam.fill[d] # {}
        THEN normalize(beam.data[d], CHOOSE f \in beam.fill[d] : TRUE)
        ELSE beam.data[d]]

\* ll2ps of is2_utils: elementwise over lon and lat (numpy broadcasting),
\* one (x, y) per sample.  The planar map is taken on the integer-degree
\* lattice the model's inputs live on.
ll2ps(lon, lat) ==
    << [j \in 1..BLen(lon, lat) |-> Sub(At(lon, j), Num(147))],
       [j \in 1..BLen(lon, lat) |-> Add(At(lat, j), Num(82))] >>

\* a[idx] = np.NaN with an INTEGER index array idx (atl06_quality_summary is
\* an int8 dataset): numpy assigns at the positions named by the VALUES of
\* idx (0-based), not where idx is non-zero.
IndexAssignNaN(a, idx) ==
    [j \in 1..Len(a) |->
        IF \E m \in 1..Len(idx) : idx[m][1] + 1 = j THEN NaN ELSE a[j]]

\* The exception lines 100-101 (ll2ps) raise for the dict tmp, or "none".
PlanarError(tmp) ==
    IF ~({"longitude", "latitude"} \subseteq DOMAIN tmp) THEN "KeyError"
    ELSE IF ~Broadcastable(tmp["longitude"], tmp["latitude"]) THEN "ValueError"
    ELSE "none"

\* temp after lines 100-103: the planar coordinates and the two
\* uninitialised arrays added.
WithPlanar_filterfirst(tmp) ==
    LET p == ll2ps(tmp["longitude"], tmp["latitude"])
    IN  [d \in DOMAIN tmp \cup {"x", "y", "mask", "FAC_interp"} |->
            CASE d = "x" -> p[1]
              [] d = "y" -> p[2]
              [] d = "mask" -> empty_like(p[2])
              [] d = "FAC_interp" -> empty_like(p[2])
              [] d = "h_li" /\ "atl06_quality_summary" \in DOMAIN tmp ->
                    IndexAssignNaN(tmp["h_li"], tmp["atl06_quality_summary"])
              [] OTHER -> tmp[d]]

WithPlanar(tmp) ==
    LET p == ll2ps(tmp["longitude"], tmp["latitude"])
    IN  [d \in DOMAIN tmp \cup {"x", "y", "mask", "FAC_interp"} |->
            CASE d = "x" -> p[1]
              [] d = "y" -> p[2]
              [] d = "mask" -> empty_like(p[2])
              [] d = "FAC_interp" -> empty_like(p[2])
              [] OTHER -> tmp[d]]

\* The exception line 104 (quality filter) raises for the dict tmp, or
\* "none": an index array may only name positions the array has.
FilterError(tmp) ==
    IF ~({"h_li", "atl06_quality_summary"} \subseteq DOMAIN tmp) THEN "KeyError"
    ELSE IF \E m \in 1..Len(tmp["atl06_quality_summary"]) :
                tmp["atl06_quality_summary"][m][1] >= Len(tmp["h_li"])
         THEN "IndexError"
    ELSE "none"

\* temp after line 104: h_li filtered by the quality flag.
QualityFilter(tmp) ==
    [tmp EXCEPT !["h_li"] = IndexAssignNaN(tmp["h_li"], tmp["atl06_quality_summary"])]

\* The datasets loop of one iteration of the files/pairs/beams loop nest.
Cell5Read ==
    /\ pc = "cell5"
    /\ k <= Len(files)
    /\ temp' = ReadTemp(files[k])
    /\ pc' = "cell5if"
    /\ UNCHANGED <<err, files, k, D6, polygon, poly_mpl, FirnAir, meanFirnAir_16,
                   xy, mean_fac_byrd, i, rho, h_MSL, thickness, aggVars>>

\* `if len(temp) > 0` and lines 100-103 of that iteration: an empty dict is
\* skipped, any other gets its planar coordinates.
Cell5Planar ==
    /\ pc = "cell5if"
    /\ IF DOMAIN temp = {}
       THEN /\ k' = k + 1
            /\ pc' = "cell5"
            /\ UNCHANGED <<err, temp>>
       ELSE IF PlanarError(temp) # "none"
       THEN /\ err' = PlanarError(temp)
            /\ pc' = "aborted"
            /\ UNCHANGED <<k, temp>>
       ELSE /\ temp' = WithPlanar(temp)
            /\ pc' = "cell5filter"
            /\ UNCHANGED <<err, k>>
    /\ UNCHANGED <<files, D6, polygon, poly_mpl, FirnAir, meanFirnAir_16, xy,
                   mean_fac_byrd, i, rho, h_MSL, thickness, aggVars>>

\* Lines 104-105 of that iteration: the quality filter, then the append.
\* temp is the dict that is appended.
Cell5Filter ==
    /\ pc = "cell5filter"
    /\ IF FilterError(temp) # "none"
       THEN /\ err' = FilterError(temp)
            /\ pc' = "aborted"
            /\ UNCHANGED <<k, temp, D6>>
       ELSE /\ temp' = QualityFilter(temp)
            /\ D6' = Append(D6, QualityFilter(temp))
            /\ k' = k + 1
            /\ pc' = "cell5"
            /\ UNCHANGED err
    /\ UNCHANGED <<files, polygon, poly_mpl, FirnAir, meanFirnAir_16, xy,
                   mean_fac_byrd, i, rho, h_MSL, thickness, aggVars>>

\* The loop nest is exhausted: print, go on to cell-13.
Cell5End ==
    /\ pc = "cell5"
    /\ k > Len(files)
    /\ pc' = "cell13"
    /\ UNCHANGED <<err, files, k, temp, D6, polygon, poly_mpl, FirnAir, meanFirnAir_16,
                   xy, mean_fac_byrd, i, rho, h_MSL, thickness, aggVars>>

-----------------------------------------------------------------------------
(* cell-11 / cell-13: ice-shelf polygons and floating-ice mask *)

\* A polygon is the sequence of its exterior vertices <<x, y>>, on the
\* planar lattice.
RossEAIS == << <<0, 0>>, <<0, 10>>, <<10, 10>>, <<10, 0>> >>
OtherShelf(n) == << <<20 + n, 20>>, <<20 + n, 30>>, <<30 + n, 30>>, <<30 + n, 20>> >>

\* shapefile.geometry: item 76 is the EAIS section of Ross Ice Shelf.
shapefile_geometry == [n \in 0..77 |-> IF n = 76 THEN RossEAIS ELSE OtherShelf(n)]

\* path.Path(coords): the closed path through the vertices.
Path(coords) == coords

\* Whether the planar point <<px, py>> (floats) lies inside the path:
\* even-odd rule over the edges of the closed path.
EdgeCrosses(a, b, px, py) ==
    /\ Less(Num(a[2]), py) # Less(Num(b[2]), py)
    /\ Less( Sub(px, Num(a[1])),
             Div( Mul(Sub(py, Num(a[2])), Num(b[1] - a[1])), Num(b[2] - a[2]) ) )

contains_point_noside(pth, px, py) ==
    /\ ~IsNaN(px) /\ ~IsNaN(py)
    /\ Cardinality({e \in 1..Len(pth) :
            Less(Num(pth[e][2]), py) # Less(Num(pth[(e % Len(pth)) + 1][2]), py)}) % 2 = 1

contains_point(pth, px, py) ==
    /\ ~IsNaN(px) /\ ~IsNaN(py)
    /\ Cardinality({e \in 1..Len(pth) :
            EdgeCrosses(pth[e], pth[(e % Len(pth)) + 1], px, py)}) % 2 = 1

\* poly_mpl.contains_points(np.transpose([x, y])): one boolean per point.
contains_points(pth, x, y) ==
    [j \in 1..Len(x) |-> contains_point(pth, x[j], y[j])]

\* The statements of cell-13 before its loop.
Cell13 ==
    /\ pc = "cell13"
    /\ polygon' = shapefile_geometry[76]
    /\ poly_mpl' = Path(shapefile_geometry[76])
    /\ i' = 1
    /\ pc' = IF Len(D6) = 0 THEN "cell27" ELSE "cell13loop"
    /\ UNCHANGED <<err, files, k, temp, D6, FirnAir, meanFirnAir_16, xy, mean_fac_byrd,
                   rho, h_MSL, thickness, aggVars>>

\* One iteration of `for Di in D6` of cell-13.  The last record appended is
\* the dict the global name `temp` still refers to.
Cell13Iter ==
    /\ pc = "cell13loop"
    /\ D6' = [D6 EXCEPT ![i]["mask"] = contains_points(poly_mpl, D6[i]["x"], D6[i]["y"])]
    /\ temp' = IF i = Len(D6) /\ DOMAIN temp # {} THEN D6'[i] ELSE temp
    /\ i' = i + 1
    /\ pc' = IF i = Len(D6) THEN "cell27" ELSE "cell13loop"
    /\ UNCHANGED <<err, files, k, polygon, poly_mpl, FirnAir, meanFirnAir_16, xy,
                   mean_fac_byrd, rho, h_MSL, thickness, aggVars>>

-----------------------------------------------------------------------------
(* cell-25 / cell-27: the firn-air grid and its 2016 mean *)

\* The grid points of the firn model, flattened; lon_fac/lat_fac in degrees.
\*   1..4 lie inside the Byrd box of cell-30, 5 and 6 outside it;
\*   4 alone lies inside the (narrower) Byrd box of cell-37;
\*   7..9 lie inside the Larsen C box of cell-39.
lon_fac == << Num(148), Num(162), Num(155), Num(155), Num(146), Num(155),
              Num(-63), Rat(-127, 2), Rat(-125, 2) >>
lat_fac == << Num(-81), Num(-81), Num(-79), Num(-80), Num(-80), Num(-78),
              Num(-67), Num(-67), Num(-67) >>

Grid == 1..Len(lon_fac)

\* time_fac, in years: 2015.5, 2016.0, 2016.5
time_fac == << Rat(4031, 2), Num(2016), Rat(4033, 2) >>

\* [x_fac, y_fac] = ll2ps(lon_fac, lat_fac, ...)
x_fac == ll2ps(lon_fac, lat_fac)[1]
y_fac == ll2ps(lon_fac, lat_fac)[2]

\* np.where((time_fac > 2015.99) & (time_fac < 2017)), in index order
time_16_inds ==
    {t \in 1..Len(time_fac) :
        Less(Rat(201599, 100), time_fac[t]) /\ Less(time_fac[t], Num(2017))}

RECURSIVE SumOver(_, _)
SumOver(f, S) ==
    IF S = {} THEN Num(0)
    ELSE LET t == CHOOSE t \in S : TRUE IN Add(f[t], SumOver(f, S \ {t}))

\* np.mean over a set of indices: NaN as soon as one value is NaN.
Mean(f, S) == IF S = {} THEN NaN ELSE Div(SumOver(f, S), Num(Cardinality(S)))

\* cell-27: the mean over the 2016 time steps, per grid point; its two
\* `for polygon in shapefile.geometry` loops leave the global name
\* `polygon` bound to the last polygon of the shapefile.
Cell27 ==
    /\ pc = "cell27"
    /\ meanFirnAir_16' =
          [g \in Grid |-> Mean([t \in 1..Len(time_fac) |-> FirnAir[t][g]], time_16_inds)]
    /\ polygon' = shapefile_geometry[77]
    /\ pc' = "cell30"
    /\ UNCHANGED <<err, files, k, temp, D6, poly_mpl, FirnAir, xy, mean_fac_byrd, i,
                   rho, h_MSL, thickness, aggVars>>

-----------------------------------------------------------------------------
(* cell-30: bounding-box subset of the grid around Byrd *)

\* np.where((lon_fac > 147) & (lon_fac < 163) & (lat_fac > -82) & (lat_fac < -78))
inds ==
    {g \in Grid : /\ Less(Num(147), lon_fac[g]) /\ Less(lon_fac[g], Num(163))
                  /\ Less(Num(-82), lat_fac[g]) /\ Less(lat_fac[g], Num(-78))}

\* a[inds], flattened: the selected elements in index order.
RECURSIVE Take(_, _, _)
Take(a, S, n) ==
    IF n > Len(a) THEN <<>>
    ELSE (IF n \in S THEN <<a[n]>> ELSE <<>>) \o Take(a, S, n + 1)

Cell30 ==
    /\ pc = "cell30"
    /\ mean_fac_byrd' = Take(meanFirnAir_16, inds, 1)
    /\ xy' = [n \in 1..Len(Take(x_fac, inds, 1)) |->
                 <<Take(x_fac, inds, 1)[n], Take(y_fac, inds, 1)[n]>>]
    /\ i' = 1
    /\ pc' = IF Len(D6) = 0 THEN "cell33" ELSE "cell31"
    /\ UNCHANGED <<err, files, k, temp, D6, polygon, poly_mpl, FirnAir, meanFirnAir_16,
                   rho, h_MSL, thickness, aggVars>>

-----------------------------------------------------------------------------
(* cell-31: scipy.interpolate.griddata(points, values, xi), method='linear' *)

\* Planar points are <<x, y>> pairs of floats; on the model's lattice every
\* source and query coordinate is a whole number, so the geometry is done on
\* the numerators.
Orient(a, b, c) ==
    (b[1][1] - a[1][1]) * (c[2][1] - a[2][1]) - (b[2][1] - a[2][1]) * (c[1][1] - a[1][1])

Sq(p) == p[1][1] * p[1][1] + p[2][1] * p[2][1]

\* > 0 iff d lies strictly inside the circle through a, b, c (a, b, c
\* counter-clockwise).
InCircleDet(a, b, c, d) ==
    LET ax == a[1][1] - d[1][1]  ay == a[2][1] - d[2][1]
        bx == b[1][1] - d[1][1]  by == b[2][1] - d[2][1]
        cx == c[1][1] - d[1][1]  cy == c[2][1] - d[2][1]
    IN    (ax * ax + ay * ay) * (bx * cy - by * cx)
        - (bx * bx + by * by) * (ax * cy - ay * cx)
        + (cx * cx + cy * cy) * (ax * by - ay * bx)

StrictlyInCircle(a, b, c, d) ==
    IF Orient(a, b, c) > 0 THEN InCircleDet(a, b, c, d) > 0
    ELSE InCircleDet(a, c, b, d) > 0

\* The Delaunay triangulation of the source points: the triangles (sets of
\* three point indices) whose circumcircle holds no other source point.
Delaunay(points) ==
    {tri \in SUBSET (1..Len(points)) :
        /\ Cardinality(tri) = 3
        /\ LET a == CHOOSE a \in tri : TRUE
               b == CHOOSE b \in tri \ {a} : TRUE
               c == CHOOSE c \in tri \ {a, b} : TRUE
           IN  /\ Orient(points[a], points[b], points[c]) # 0
               /\ \A d \in (1..Len(points)) \ tri :
                     ~StrictlyInCircle(points[a], points[b], points[c], points[d])}

\* Whether q lies in the closed triangle a, b, c.
InTriangle(q, a, b, c) ==
    LET o1 == Orient(a, b, q)  o2 == Orient(b, c, q)  o3 == Orient(c, a, q)
    IN  (o1 >= 0 /\ o2 >= 0 /\ o3 >= 0) \/ (o1 =< 0 /\ o2 =< 0 /\ o3 =< 0)

\* Barycentric interpolation of the vertex values at q: the weighted sum,
\* in IEEE arithmetic (a NaN vertex value makes the sum NaN).
Barycentric(points, values, tri, q) ==
    LET a == CHOOSE a \in tri : TRUE
        b == CHOOSE b \in tri \ {a} : TRUE
        c == CHOOSE c \in tri \ {a, b} : TRUE
        area == Orient(points[a], points[b], points[c])
        wa == Rat(Orient(q, points[b], points[c]), area)
        wb == Rat(Orient(points[a], q, points[c]), area)
        wc == Rat(Orient(points[a], points[b], q), area)
    IN  Add(Add(Mul(wa, values[a]), Mul(wb, values[b])), Mul(wc, values[c]))

\* The value at one query point: NaN (the default fill_value) when no
\* simplex holds the point, else the interpolant of the simplex found.
griddata_point_nearest(points, values, q) ==
    IF IsNaN(q[1]) \/ IsNaN(q[2]) THEN NaN
    ELSE values[CHOOSE n \in 1..Len(points) :
            \A m \in 1..Len(points) :
               Sq(<<Sub(points[n][1], q[1]), Sub(points[n][2], q[2])>>)
                 =< Sq(<<Sub(points[m][1], q[1]), Sub(points[m][2], q[2])>>)]

griddata_point(points, values, q) ==
    IF IsNaN(q[1]) \/ IsNaN(q[2]) THEN NaN
    ELSE LET holds == {tri \in Delaunay(points) :
                          LET a == CHOOSE a \in tri : TRUE
                              b == CHOOSE b \in tri \ {a} : TRUE
                              c == CHOOSE c \in tri \ {a, b} : TRUE
                          IN  InTriangle(q, points[a], points[b], points[c])}
         IN  IF holds = {} THEN NaN
             ELSE Barycentric(points, values, CHOOSE tri \in holds : TRUE, q)

\* interpolate.griddata(xy, mean_fac_byrd, xy_data): one value per row of
\* xy_data, in row order.
griddata(points, values, xi) ==
    [j \in 1..Len(xi) |-> griddata_point(points, values, xi[j])]

\* One iteration of `for Di in D6` of cell-31.
Cell31Iter_shared ==
    /\ pc = "cell31"
    /\ LET xy_data == [j \in 1..Len(D6[i]["x"]) |-> <<D6[i]["x"][j], D6[i]["y"][j]>>]
       IN  D6' = [n \in 1..Len(D6) |->
                    [D6[n] EXCEPT !["FAC_interp"] = griddata(xy, mean_fac_byrd, xy_data)]]
    /\ temp' = IF i = Len(D6) /\ DOMAIN temp # {} THEN D6'[i] ELSE temp
    /\ i' = i + 1
    /\ pc' = IF i = Len(D6) THEN "cell33" ELSE "cell31"
    /\ UNCHANGED <<err, files, k, polygon, poly_mpl, FirnAir, meanFirnAir_16, xy,
                   mean_fac_byrd, rho, h_MSL, thickness, aggVars>>

Cell31Iter ==
    /\ pc = "cell31"
    /\ LET xy_data == [j \in 1..Len(D6[i]["x"]) |-> <<D6[i]["x"][j], D6[i]["y"][j]>>]
       IN  D6' = [D6 EXCEPT ![i]["FAC_interp"] = griddata(xy, mean_fac_byrd, xy_data)]
    /\ temp' = IF i = Len(D6) /\ DOMAIN temp # {} THEN D6'[i] ELSE temp
    /\ i' = i + 1
    /\ pc' = IF i = Len(D6) THEN "cell33" ELSE "cell31"
    /\ UNCHANGED <<err, files, k, polygon, poly_mpl, FirnAir, meanFirnAir_16, xy,
                   mean_fac_byrd, rho, h_MSL, thickness, aggVars>>

-----------------------------------------------------------------------------
(* cell-33: height above mean sea level and thickness *)

\* MDT_corr = -1.4
MDT_corr == Rat(-14, 10)

\* rho_ice = 917.; rho_ocean = 1028.
RhoIce == 917
RhoOcean == 1028

\* Di['h_li'] - MDT_corr - Di['geoid_h']
h_MSL_of_withtide(Di) ==
    IF "tide_ocean" \in DOMAIN Di
    THEN ArrSub(ArrSubScalar(ArrSubScalar(Di["h_li"], MDT_corr), Di["tide_ocean"][1]),
                Di["geoid_h"])
    ELSE ArrSub(ArrSubScalar(Di["h_li"], MDT_corr), Di["geoid_h"])

h_MSL_of(Di) == ArrSub(ArrSubScalar(Di["h_li"], MDT_corr), Di["geoid_h"])

\* (1/rho_ice - 1/rho_ocean): Python floats
InvDensityDiff(rho_ice, rho_ocean) ==
    Sub(Div(Num(1), Num(rho_ice)), Div(Num(1), Num(rho_ocean)))

\* ((1/rho_ice - 1/rho_ocean)**(-1)) * ((h_MSL - Di['FAC_interp'])/rho_ice)
thickness_of_nofirn(hm, fac, rho_ice, rho_ocean) ==
    ScalarMulArr(Div(Num(1), InvDensityDiff(rho_ice, rho_ocean)),
                 ArrDivScalar(hm, Num(rho_ice)))

thickness_of(hm, fac, rho_ice, rho_ocean) ==
    ScalarMulArr(Div(Num(1), InvDensityDiff(rho_ice, rho_ocean)),
                 ArrDivScalar(ArrSub(hm, fac), Num(rho_ice)))

\* The exception line 530 (h_MSL) raises for record Di, or "none".
HmslError(Di) ==
    IF "geoid_h" \notin DOMAIN Di THEN "KeyError"
    ELSE IF ~Broadcastable(Di["h_li"], Di["geoid_h"]) THEN "ValueError"
    ELSE "none"

ThicknessError_silent(hm, Di, rho_ice, rho_ocean) ==
    IF ~Broadcastable(hm, Di["FAC_interp"]) THEN "ValueError" ELSE "none"

\* The exception line 531 (thickness) raises, or "none": a Python float 0.0
\* raised to the power -1 is a ZeroDivisionError; it is evaluated before
\* the array operand.
ThicknessError(hm, Di, rho_ice, rho_ocean) ==
    IF InvDensityDiff(rho_ice, rho_ocean) = Num(0) THEN "ZeroDivisionError"
    ELSE IF ~Broadcastable(hm, Di["FAC_interp"]) THEN "ValueError"
    ELSE "none"

\* The exception line 532 (scatter) raises, or "none": a boolean index must
\* have the length of the array it indexes.
ScatterError(th, Di) ==
    IF Len(th) # Len(Di["mask"]) THEN "IndexError" ELSE "none"

\* The statements of cell-33 before its loop.
Cell33 ==
    /\ pc = "cell33"
    /\ i' = 1
    /\ pc' = IF Len(D6) = 0 THEN "done" ELSE "cell33loop"
    /\ UNCHANGED <<err, files, k, temp, D6, polygon, poly_mpl, FirnAir, meanFirnAir_16,
                   xy, mean_fac_byrd, rho, h_MSL, thickness, aggVars>>

\* One iteration of `for Di in D6` of cell-33.  h_MSL and thickness are
\* names rebound in every iteration; the model keeps the value each
\* iteration gave them, per record.
Cell33Iter ==
    /\ pc = "cell33loop"
    /\ LET Di == D6[i]
           e1 == HmslError(Di)
           hm == h_MSL_of(Di)
           e2 == IF e1 # "none" THEN e1 ELSE ThicknessError(hm, Di, rho[1], rho[2])
           th == thickness_of(hm, Di["FAC_interp"], rho[1], rho[2])
           e3 == IF e2 # "none" THEN e2 ELSE ScatterError(th, Di)
       IN  /\ h_MSL' = IF e1 = "none" THEN Append(h_MSL, hm) ELSE h_MSL
           /\ thickness' = IF e2 = "none" THEN Append(thickness, th) ELSE thickness
           /\ err' = e3
           /\ pc' = IF e3 # "none" THEN "aborted"
                    ELSE IF i = Len(D6) THEN "done" ELSE "cell33loop"
           /\ i' = IF e3 # "none" THEN i ELSE i + 1
    /\ UNCHANGED <<files, k, temp, D6, polygon, poly_mpl, FirnAir, meanFirnAir_16,
                   xy, mean_fac_byrd, rho, aggVars>>

-----------------------------------------------------------------------------
(* cell-36 .. cell-39: regional time series of firn air and surface mass
   balance *)

\* Everything the time-series cells leave alone.
pipeVars == <<err, files, k, temp, D6, polygon, poly_mpl, FirnAir, meanFirnAir_16,
              xy, mean_fac_byrd, i, rho, h_MSL, thickness>>

\* rho_snow = 450.
RhoSnow == 450

\* The grid points of the SMB model, flattened; lon_smb/lat_smb in degrees.
\*   1..3 lie inside the Byrd box of cell-37, 4 on its edge,
\*   5..7 inside the Larsen C box of cell-39, 8 in neither.
lon_smb == << Num(150), Num(155), Num(160), Num(148),
              Num(-63), Rat(-127, 2), Rat(-125, 2), Num(0) >>
lat_smb == << Num(-80), Num(-80), Num(-80), Num(-80),
              Num(-67), Num(-67), Num(-67), Num(-70) >>

GridSmb == 1..Len(lon_smb)

\* SMB_data.variables['smb'][:]*12/917
Cell36 ==
    /\ pc = "done"
    /\ SMB' = [t \in DOMAIN smb |->
                 [g \in GridSmb |-> Div(Mul(smb[t][g], Num(12)), Num(917))]]
    /\ pc' = "cell37"
    /\ UNCHANGED <<pipeVars, smb, time_smb, mean_fac, mean_smb>>

\* np.where((lon > w) & (lon < e) & (lat > s) & (lat < n))
Box(lon, lat, w, e, s, n) ==
    {g \in 1..Len(lon) : /\ Less(Num(w), lon[g]) /\ Less(lon[g], Num(e))
                         /\ Less(Num(s), lat[g]) /\ Less(lat[g], Num(n))}

\* The name `inds` as cell-37 and cell-39 rebind it.
inds_byrd_fac == Box(lon_fac, lat_fac, 148, 162, -81, -79)
inds_byrd_smb == Box(lon_smb, lat_smb, 148, 162, -81, -79)
inds_larsen_fac == Box(lon_fac, lat_fac, -64, -62, -68, -66)
inds_larsen_smb == Box(lon_smb, lat_smb, -64, -62, -68, -66)

\* np.nanmean over a set of indices: the mean of the values that are not
\* NaN, NaN when there is none.
nanmean(f, S) == Mean(f, {g \in S : ~IsNaN(f[g])})

\* (rho_ice/rho_snow) - (rho_ocean-rho_ice)/rho_ice
smb_to_surface_height(rho_ice, rho_ocean) ==
    Sub(Div(Num(rho_ice), Num(RhoSnow)), Div(Num(rho_ocean - rho_ice), Num(rho_ice)))

\* cell-37 up to its second loop: the Byrd means of every time step.
Cell37 ==
    /\ pc = "cell37"
    /\ mean_fac' = [t \in 1..Len(time_fac) |-> Mean(FirnAir[t], inds_byrd_fac)]
    /\ mean_smb' = [t \in 1..Len(time_smb) |->
                      Mul(smb_to_surface_height(rho[1], rho[2]),
                          Mean(SMB[t], inds_byrd_smb))]
    /\ pc' = "cell37anom"
    /\ UNCHANGED <<pipeVars, smb, time_smb, SMB>>

\* np.mean / np.nanmean of a whole array
ArrMean(a) == Mean(a, 1..Len(a))
ArrNanMean(a) == nanmean(a, 1..Len(a))

\* mean_smb = mean_smb - np.mean(mean_smb)
Cell37Anom ==
    /\ pc = "cell37anom"
    /\ mean_smb' = ArrSubScalar(mean_smb, ArrMean(mean_smb))
    /\ pc' = "cell37cum"
    /\ UNCHANGED <<pipeVars, smb, time_smb, SMB, mean_fac>>

\* np.cumsum
RECURSIVE cumsum(_)
cumsum(a) ==
    IF Len(a) = 0 THEN <<>>
    ELSE LET head == cumsum(SubSeq(a, 1, Len(a) - 1))
         IN  Append(head, IF Len(head) = 0 THEN a[Len(a)]
                          ELSE Add(head[Len(head)], a[Len(a)]))

\* scipy.integrate.cumtrapz(y, x=x), initial=None:
\*   d = np.diff(x); res = np.cumsum(d * (y[1:] + y[:-1]) / 2.0)
cumtrapz_rect(y, x) ==
    cumsum([j \in 1..(Len(y) - 1) |-> Mul(Sub(x[j + 1], x[j]), y[j])])

cumtrapz(y, x) ==
    cumsum([j \in 1..(Len(y) - 1) |->
               Div(Mul(Sub(x[j + 1], x[j]), Add(y[j + 1], y[j])), Num(2))])

\* mean_smb = cumtrapz(mean_smb, x=time_smb)
Cell37Cum ==
    /\ pc = "cell37cum"
    /\ mean_smb' = cumtrapz(mean_smb, time_smb)
    /\ pc' = "cell39"
    /\ UNCHANGED <<pipeVars, smb, time_smb, SMB, mean_fac>>

\* cell-39 up to its second loop: the Larsen C means of every time step.
Cell39 ==
    /\ pc = "cell39"
    /\ mean_fac' = [t \in 1..Len(time_fac) |-> nanmean(FirnAir[t], inds_larsen_fac)]
    /\ mean_smb' = [t \in 1..Len(time_smb) |->
                      Mul(smb_to_surface_height(rho[1], rho[2]),
                          Mean(SMB[t], inds_larsen_smb))]
    /\ pc' = "cell39anom"
    /\ UNCHANGED <<pipeVars, smb, time_smb, SMB>>

\* mean_smb = mean_smb - np.nanmean(mean_smb)
Cell39Anom ==
    /\ pc = "cell39anom"
    /\ mean_smb' = ArrSubScalar(mean_smb, ArrNanMean(mean_smb))
    /\ pc' = "cell39cum"
    /\ UNCHANGED <<pipeVars, smb, time_smb, SMB, mean_fac>>

\* mean_smb = cumtrapz(mean_smb, x=time_smb)
Cell39Cum ==
    /\ pc = "cell39cum"
    /\ mean_smb' = cumtrapz(mean_smb, time_smb)
    /\ pc' = "end"
    /\ UNCHANGED <<pipeVars, smb, time_smb, SMB, mean_fac>>

-----------------------------------------------------------------------------
(* Inputs: the beams of the HDF5 files, the firn-air grid, the densities *)

\* The '_FillValue' attribute of the float datasets.
FILL == Num(-9999)

\* Values a sample's datasets take in the input files.
H_LI == {FILL, Rat(486, 10)}
QUALITY == {Num(0), Num(1)}
GEOID_H == {FILL, Num(-50)}
\* <<longitude, latitude>>: inside the subset's hull / outside it
POSITION == { <<Num(153), Num(-80)>>, <<Num(153), Num(-79)>> }

Samples == [h : H_LI, q : QUALITY, g : GEOID_H, pos : POSITION]

GoodSample == [h |-> Rat(486, 10), q |-> Num(0), g |-> Num(-50),
               pos |-> <<Num(153), Num(-80)>>]

SampleValue(s, d) ==
    CASE d = "h_li" -> s.h
      [] d = "atl06_quality_summary" -> s.q
      [] d = "geoid_h" -> s.g
      [] d = "longitude" -> s.pos[1]
      [] d = "latitude" -> s.pos[2]
      [] d = "tide_load" -> Rat(1, 100)
      [] d = "dac" -> Rat(1, 5)
      [] d = "tide_ocean" -> Rat(1, 2)

\* A beam group holding all datasets, one element per sample; the float
\* datasets declare '_FillValue', the int8 quality flag does not.
MkBeam(ss) ==
    [data |-> [d \in datasets |-> [j \in 1..Len(ss) |-> SampleValue(ss[j], d)]],
     fill |-> [d \in datasets |-> IF d = "atl06_quality_summary" THEN {} ELSE {FILL}]]

\* The beam without the datasets in gone.
Drop(beam, gone) ==
    [data |-> [d \in (DOMAIN beam.data) \ gone |-> beam.data[d]],
     fill |-> [d \in (DOMAIN beam.fill) \ gone |-> beam.fill[d]]]

\* The beam with dataset d cut or padded to n elements.
Resize(beam, d, n) ==
    [beam EXCEPT !.data[d] = [j \in 1..n |-> beam.data[d][1]]]

\* The beam with the fill value as last element of every float dataset.
WithFill(beam) ==
    [beam EXCEPT !.data = [d \in DOMAIN beam.data |->
        IF beam.fill[d] # {} THEN [beam.data[d] EXCEPT ![Len(beam.data[d])] = FILL]
        ELSE beam.data[d]]]

\* The beam whose dataset d does not declare '_FillValue'.
NoAttr(beam, d) == [beam EXCEPT !.fill[d] = {}]

GoodBeam(n) == MkBeam([j \in 1..n |-> GoodSample])

\* Beams with every dataset, all of one length.
RichBeams == {MkBeam(ss) : ss \in UNION {[1..n -> Samples] : n \in 1..MaxLen}}

\* Beams lacking one dataset, or all of them.
AbsentBeams == {Drop(GoodBeam(2), {d}) : d \in datasets} \cup {Drop(GoodBeam(2), datasets)}

\* Beams with one dataset shorter or longer than the others.
MismatchBeams == {Resize(GoodBeam(2), d, n) : d \in datasets, n \in {1, 3}}

\* Beams with fill values in every float dataset, declared or not.
FillBeams ==
    { WithFill(GoodBeam(2)),
      NoAttr(WithFill(GoodBeam(2)), "geoid_h"),
      [GoodBeam(3) EXCEPT !.data["dac"] = <<Num(1), FILL, Num(3)>>] }

\* <<longitude, latitude>> of samples inside the ice-shelf polygon (planar
\* (5, 5)) and outside it (planar (15, 15), (15, 5), (-3, 5)).
MASKPOS == { <<Num(152), Num(-77)>>, <<Num(162), Num(-67)>>,
             <<Num(162), Num(-77)>>, <<Num(144), Num(-77)>> }

\* Beams of two samples on and off the ice shelf.
MaskBeams ==
    {MkBeam(<<[GoodSample EXCEPT !.pos = p], [GoodSample EXCEPT !.pos = q]>>) :
        p, q \in MASKPOS}

SingleBeams == RichBeams \cup AbsentBeams \cup MismatchBeams \cup FillBeams
               \cup MaskBeams

\* The beams of the multi-beam runs.
FewBeams == { GoodBeam(1),
              MkBeam(<<[GoodSample EXCEPT !.pos = <<Num(153), Num(-79)>>]>>),
              Drop(GoodBeam(1), datasets),
              Drop(GoodBeam(1), {"geoid_h"}),
              Drop(GoodBeam(1), {"h_li"}) }

MultiRuns == UNION {[1..n -> FewBeams] : n \in 0..MaxBeams}

\* Firn-air grids: time step -> grid point -> firn air content [m].
FieldConst == [t \in 1..Len(time_fac) |-> [g \in Grid |-> Num(5)]]
FieldHole == [t \in 1..Len(time_fac) |-> [g \in Grid |-> IF g = 4 THEN NaN ELSE Num(5)]]
FieldRamp == [t \in 1..Len(time_fac) |-> [g \in Grid |-> Add(x_fac[g], Num(2 * t))]]

Fields == {FieldConst, FieldHole, FieldRamp}

\* Firn-air grids with missing values over Larsen C: one point, every point.
FieldLarsen ==
    [t \in 1..Len(time_fac) |->
        [g \in Grid |-> CASE g = 7 -> Num(1) [] g = 8 -> NaN [] g = 9 -> Num(3)
                          [] OTHER -> Num(5)]]
FieldVoid ==
    [t \in 1..Len(time_fac) |-> [g \in Grid |-> IF g \in 7..9 THEN NaN ELSE Num(5)]]

AggFields == {FieldConst, FieldLarsen, FieldVoid}

\* Bound on the number of time steps of the SMB file.
MaxT == 4

\* Time axes of the SMB file, as date2fracyr returns them: whole years, and
\* three steps of unequal length.
YearAxis(n) == [j \in 1..n |-> Num(2012 + j)]
UnevenAxis == << Num(2016), Rat(24193, 12), Rat(8065, 4) >>
TimeAxes == {YearAxis(n) : n \in 1..MaxT} \cup {UnevenAxis}

\* The 'smb' variable [mm w.e. per month] whose value at time step t and
\* grid point g is c[t][g] metres of ice per year.
SmbOf(c) == [t \in DOMAIN c |-> [g \in GridSmb |-> Mul(c[t][g], Rat(917, 12))]]

\* SMB grids over n time steps: constant 1.0; rising in time; varying in
\* time and space; missing at one point of each region at every time step;
\* missing at one Larsen C point at the second time step only.
SmbConst(n) == SmbOf([t \in 1..n |-> [g \in GridSmb |-> Num(1)]])
SmbRamp(n) == SmbOf([t \in 1..n |-> [g \in GridSmb |-> Num(t)]])
SmbSquare(n) == SmbOf([t \in 1..n |-> [g \in GridSmb |-> Num(t * t + g)]])
SmbHole(n) ==
    SmbOf([t \in 1..n |-> [g \in GridSmb |-> IF g \in {2, 6} THEN NaN ELSE Num(g)]])
SmbGap(n) ==
    SmbOf([t \in 1..n |-> [g \in GridSmb |-> IF t = 2 /\ g = 5 THEN NaN ELSE Num(t)]])

SmbFields(n) == {SmbConst(n), SmbRamp(n), SmbSquare(n), SmbHole(n), SmbGap(n)}

\* <<rho_ice, rho_ocean>>: the notebook's values, and degenerate settings.
Rhos == { <<RhoIce, RhoOcean>>, <<RhoIce, RhoIce>>, <<RhoOcean, RhoOcean>> }

\* The runs: one beam of every kind over every firn-air grid; several
\* beams under every density setting; one good beam over every time axis
\* and SMB grid.
Inputs ==
    [files : {<<b>> : b \in SingleBeams}, FirnAir : Fields,
     rho : {<<RhoIce, RhoOcean>>}, time_smb : {YearAxis(3)}, smb : {SmbRamp(3)}]
    \cup [files : MultiRuns, FirnAir : {FieldConst}, rho : Rhos,
          time_smb : {YearAxis(3)}, smb : {SmbRamp(3)}]
    \cup UNION { [files : {<<GoodBeam(1)>>}, FirnAir : AggFields,
                  rho : {<<RhoIce, RhoOcean>>}, time_smb : {tm},
                  smb : SmbFields(Len(tm))] : tm \in TimeAxes }

-----------------------------------------------------------------------------
(* The notebook run *)

Init ==
    /\ \E in \in Inputs :
          /\ files = in.files
          /\ FirnAir = in.FirnAir
          /\ rho = in.rho
          /\ time_smb = in.time_smb
          /\ smb = in.smb
    /\ pc = "cell5"
    /\ err = "none"
    /\ k = 1
    /\ temp = <<>>
    /\ D6 = <<>>
    /\ polygon = <<>>
    /\ poly_mpl = <<>>
    /\ meanFirnAir_16 = <<>>
    /\ xy = <<>>
    /\ mean_fac_byrd = <<>>
    /\ i = 1
    /\ h_MSL = <<>>
    /\ thickness = <<>>
    /\ SMB = <<>>
    /\ mean_fac = <<>>
    /\ mean_smb = <<>>

Next ==
    \/ Cell5Read
    \/ Cell5Planar
    \/ Cell5Filter
    \/ Cell5End
    \/ Cell13
    \/ Cell13Iter
    \/ Cell27
    \/ Cell30
    \/ Cell31Iter
    \/ Cell33
    \/ Cell33Iter
    \/ Cell36
    \/ Cell37
    \/ Cell37Anom
    \/ Cell37Cum
    \/ Cell39
    \/ Cell39Anom
    \/ Cell39Cum

Spec == Init /\ [][Next]_vars

-----------------------------------------------------------------------------
(* Properties *)

\* The indices of the beams of files that hold at least one dataset, in
\* loop order: record n of D6 was extracted from beam SrcOf(n).
NonEmptyBeams ==
    SelectSeq([j \in 1..Len(files) |-> j], LAMBDA j : DOMAIN files[j].data # {})

SrcOf(n) == files[NonEmptyBeams[n]]

\* Whether a value is a number (neither NaN nor uninitialised).
IsNumber(a) == a[2] > 0

\* C1: after a beam record is extracted, h_li is the missing marker at every
\* sample whose atl06_quality_summary flag is non-zero.
C1_FlaggedSamplesMissing ==
    \A n \in 1..Len(D6) :
        \A j \in 1..Len(D6[n]["atl06_quality_summary"]) :
            (D6[n]["atl06_quality_summary"][j] # Num(0) /\ j <= Len(D6[n]["h_li"]))
                => IsNaN(D6[n]["h_li"][j])

\* C2: once the datasets loop has run, every extracted dataset that declares
\* a fill value has the length of the raw array, NaN exactly where the raw
\* array equals the fill value, and the raw value everywhere else.
C2_FillValueNormalized ==
    pc = "cell5if" =>
        \A d \in DOMAIN temp :
            files[k].fill[d] # {} =>
                /\ Len(temp[d]) = Len(files[k].data[d])
                /\ \A j \in 1..Len(temp[d]) :
                      /\ files[k].data[d][j] \in files[k].fill[d] <=> IsNaN(temp[d][j])
                      /\ files[k].data[d][j] \notin files[k].fill[d]
                            => temp[d][j] = files[k].data[d][j]

\* C2 witness: the array [1.0, -9999.0, 3.0] with fill value -9999.0 has
\* been normalized to [1.0, NaN, 3.0].
C2_Witness ==
    /\ pc = "cell5if"
    /\ "dac" \in DOMAIN temp
    /\ files[k].data["dac"] = <<Num(1), Num(-9999), Num(3)>>
    /\ files[k].fill["dac"] = {Num(-9999)}
    /\ temp["dac"] = <<Num(1), NaN, Num(3)>>

\* Whether the float a, rounded to one decimal, is tenths/10.
RoundsTo(a, tenths) ==
    /\ IsNumber(a)
    /\ 20 * a[1] >= (2 * tenths - 1) * a[2]
    /\ 20 * a[1] < (2 * tenths + 1) * a[2]

\* The samples of the worked example: rho_ice = 917, rho_ocean = 1028,
\* h_msl = 100, firn air = 5, thickness computed.
ExampleSamples ==
    {s \in UNION {{<<n, j>> : j \in 1..Len(thickness[n])} : n \in 1..Len(thickness)} :
        /\ rho = <<917, 1028>>
        /\ h_MSL[s[1]][s[2]] = Num(100)
        /\ D6[s[1]]["FAC_interp"][s[2]] = Num(5)}

\* C3 (as stated): the worked example evaluates to approximately 87.9 m.
C3_Example_87_9 == \A s \in ExampleSamples : RoundsTo(thickness[s[1]][s[2]], 879)

\* C3 (amended): the worked example evaluates to approximately 879.8 m.
C3_Example_879_8 == \A s \in ExampleSamples : RoundsTo(thickness[s[1]][s[2]], 8798)

C3_Witness == ExampleSamples # {}

\* C4: for every record and sample i, h_MSL[i] = h_li[i] - MDT_corr -
\* geoid_h[i] with the scalar MDT_corr = -1.4 and no tide term, and
\* thickness[i] = (1/rho_ice - 1/rho_ocean)^(-1) * (h_MSL[i] - FAC_interp[i])
\* / rho_ice, from the fields of the same record at the same index; a record
\* whose arrays all have one length gets h_MSL and thickness of that length.
C4_CorrectionEquations ==
    /\ \A n \in 1..Len(h_MSL) :
          /\ \A j \in 1..Len(h_MSL[n]) :
                (j <= Len(D6[n]["h_li"]) /\ j <= Len(D6[n]["geoid_h"])) =>
                    IF IsNumber(D6[n]["h_li"][j]) /\ IsNumber(D6[n]["geoid_h"][j])
                    THEN D6[n]["h_li"][j]
                            = Add(Add(h_MSL[n][j], D6[n]["geoid_h"][j]), Rat(-7, 5))
                    ELSE IsNaN(h_MSL[n][j])
          /\ Len(D6[n]["h_li"]) = Len(D6[n]["geoid_h"])
                => Len(h_MSL[n]) = Len(D6[n]["h_li"])
    /\ \A n \in 1..Len(thickness) :
          /\ \A j \in 1..Len(thickness[n]) :
                (j <= Len(h_MSL[n]) /\ j <= Len(D6[n]["FAC_interp"])) =>
                    IF IsNumber(h_MSL[n][j]) /\ IsNumber(D6[n]["FAC_interp"][j])
                    THEN Mul(thickness[n][j], Num(rho[2] - rho[1]))
                            = Mul(Num(rho[2]), Sub(h_MSL[n][j], D6[n]["FAC_interp"][j]))
                    ELSE IsNaN(thickness[n][j])
          /\ Len(h_MSL[n]) = Len(D6[n]["FAC_interp"])
                => Len(thickness[n]) = Len(h_MSL[n])

\* C4 witness: a thickness computed from numbers, for a sample beyond the
\* first of its record.
C4_Witness ==
    \E n \in 1..Len(thickness) : \E j \in 2..Len(thickness[n]) :
        /\ IsNumber(thickness[n][j])
        /\ IsNumber(D6[n]["h_li"][j])
        /\ IsNumber(D6[n]["FAC_interp"][j])

\* C5: when h_li, the MDT correction, geoid_h or FAC_interp is missing at a
\* sample, the thickness of that sample is missing; so it is when the raw
\* h_li or geoid_h held the declared fill value there.
C5_MissingPropagates ==
    \A n \in 1..Len(thickness) : \A j \in 1..Len(thickness[n]) :
        /\ ( \/ IsNaN(At(D6[n]["h_li"], j))
             \/ IsNaN(MDT_corr)
             \/ IsNaN(At(D6[n]["geoid_h"], j))
             \/ IsNaN(At(D6[n]["FAC_interp"], j)) )
              => IsNaN(thickness[n][j])
        /\ \A d \in {"h_li", "geoid_h"} :
              At(SrcOf(n).data[d], j) \in SrcOf(n).fill[d] => IsNaN(thickness[n][j])

\* C5 witness: in one record, the thickness of a sample is missing because
\* only its interpolated firn air is, and that of another sample, whose firn
\* air is a number, is missing where its raw geoid_h held the fill value.
C5_Witness ==
    \E n \in 1..Len(thickness) : \E j, m \in 1..Len(thickness[n]) :
        /\ IsNaN(At(D6[n]["FAC_interp"], j))
        /\ IsNumber(h_MSL[n][j])
        /\ IsNaN(thickness[n][j])
        /\ At(SrcOf(n).data["geoid_h"], m) \in SrcOf(n).fill["geoid_h"]
        /\ IsNumber(At(D6[n]["FAC_interp"], m))
        /\ IsNaN(thickness[n][m])

\* C6: with rho_ice = rho_ocean no thickness is ever produced, for any
\* sample of any record; the first record whose thickness is evaluated ends
\* the run with an error (Python's ZeroDivisionError), and the run does not
\* get past cell-33 with records in D6.
C6_DegenerateAborts ==
    rho[1] = rho[2] =>
        /\ thickness = <<>>
        /\ h_MSL # <<>> => (pc = "aborted" /\ err = "ZeroDivisionError")
        /\ pc \in {"done", "cell37", "cell37anom", "cell37cum", "cell39", "cell39anom",
                  "cell39cum", "end"} => D6 = <<>>

C6_Witness ==
    /\ rho[1] = rho[2]
    /\ pc = "aborted"
    /\ err = "ZeroDivisionError"
    /\ h_MSL # <<>>

\* C7: a beam lacking a required dataset is reported to the caller: the
\* loop does not go on past it, and no record lacking a required dataset
\* is in D6.
C7_MissingFieldReported ==
    /\ \A j \in 1..(k - 1) : DOMAIN files[j].data = datasets
    /\ \A n \in 1..Len(D6) : datasets \subseteq DOMAIN D6[n]

\* Whether the input arrays of record n all have one length.
SameLengths(n) ==
    \A d, e \in DOMAIN SrcOf(n).data : Len(SrcOf(n).data[d]) = Len(SrcOf(n).data[e])

\* C8: a record whose parallel input arrays differ in length aborts the run
\* before a derived field or a thickness is produced for it: no such record
\* is in D6 with planar coordinates, and none has a thickness.
C8_ShapeMismatchAborts ==
    /\ \A n \in 1..Len(D6) : SameLengths(n)
    /\ \A n \in 1..Len(thickness) : SameLengths(n)

\* Whether record n has been interpolated by cell-31.
Interpolated(n) == xy # <<>> /\ (pc = "cell31" => n < i)

\* Whether the planar point q lies in the convex hull of the points of pts
\* with index in S (some closed triangle of three of them holds it).
InHull(q, pts, S) ==
    \E a, b, c \in S :
        /\ ~IsNaN(q[1]) /\ ~IsNaN(q[2])
        /\ Orient(pts[a], pts[b], pts[c]) # 0
        /\ InTriangle(q, pts[a], pts[b], pts[c])

Query(n, j) == <<D6[n]["x"][j], D6[n]["y"][j]>>

\* C9: source points whose value is missing are excluded, so a query inside
\* the convex hull of the valid source points gets a number.
C9_MissingSourcesExcluded ==
    \A n \in 1..Len(D6) : Interpolated(n) =>
        \A j \in 1..Len(D6[n]["x"]) :
            InHull(Query(n, j), xy, {m \in 1..Len(xy) : ~IsNaN(mean_fac_byrd[m])})
                => IsNumber(D6[n]["FAC_interp"][j])

\* C10: the interpolation gives one value per query sample, in query order;
\* a query outside the convex hull of the subset's source points gets NaN
\* (and, where every source value is a number, only such a query does; on
\* the field that is linear in x the value is that of the query's own x).
C10_InterpolationDomain ==
    \A n \in 1..Len(D6) : Interpolated(n) =>
        /\ Len(D6[n]["FAC_interp"]) = Len(D6[n]["x"])
        /\ \A j \in 1..Len(D6[n]["x"]) :
              /\ ~InHull(Query(n, j), xy, 1..Len(xy)) => IsNaN(D6[n]["FAC_interp"][j])
              /\ (InHull(Query(n, j), xy, 1..Len(xy)) /\ FirnAir = FieldConst)
                    => D6[n]["FAC_interp"][j] = Num(5)
              /\ (InHull(Query(n, j), xy, 1..Len(xy)) /\ FirnAir = FieldRamp)
                    => D6[n]["FAC_interp"][j] = Add(D6[n]["x"][j], Num(5))

\* C10 witness: a record with a sample inside and a sample outside the hull
\* has been interpolated, the outside sample to NaN.
C10_Witness ==
    \E n \in 1..Len(D6) :
        /\ Interpolated(n)
        /\ \E j, m \in 1..Len(D6[n]["x"]) :
              /\ ~InHull(Query(n, j), xy, 1..Len(xy))
              /\ IsNaN(D6[n]["FAC_interp"][j])
              /\ InHull(Query(n, m), xy, 1..Len(xy))
              /\ IsNumber(D6[n]["FAC_interp"][m])

\* Whether m is the arithmetic mean of the non-missing values of f over the
\* index set S, scaled by c: missing when S holds no valid value.
IsValidMean(m, c, f, S) ==
    LET V == {g \in S : IsNumber(f[g])}
    IN  IF V = {} THEN IsNaN(m)
        ELSE /\ IsNumber(m)
             /\ Mul(m, Num(Cardinality(V))) = Mul(c, SumOver(f, V))

\* C11: every regional mean of a time step (firn air and surface mass
\* balance, over Byrd and over Larsen C) is the arithmetic mean of the
\* non-missing values of the field inside the region's box, and missing
\* when the box holds no valid value.
C11_SpatialMeanIgnoresMissing ==
    /\ pc = "cell37anom" =>
          /\ \A t \in 1..Len(mean_fac) :
                IsValidMean(mean_fac[t], Num(1), FirnAir[t], inds_byrd_fac)
          /\ \A t \in 1..Len(mean_smb) :
                IsValidMean(mean_smb[t], smb_to_surface_height(rho[1], rho[2]),
                            SMB[t], inds_byrd_smb)
    /\ pc = "cell39anom" =>
          /\ \A t \in 1..Len(mean_fac) :
                IsValidMean(mean_fac[t], Num(1), FirnAir[t], inds_larsen_fac)
          /\ \A t \in 1..Len(mean_smb) :
                IsValidMean(mean_smb[t], smb_to_surface_height(rho[1], rho[2]),
                            SMB[t], inds_larsen_smb)

\* The area of the j-th trapezoid of the series a over the time points x.
TrapArea(a, x, j) == Div(Mul(Sub(x[j + 1], x[j]), Add(a[j], a[j + 1])), Num(2))

AllNumbers(a) == \A j \in 1..Len(a) : IsNumber(a[j])

\* C12: the mean of the series of regional means is subtracted first (a
\* series of numbers loses one constant and then sums to zero), and the
\* result is then integrated by the trapezoidal rule over time_smb: a series
\* of n >= 1 values gives n-1 values, the k-th being the (k-1)-th plus the
\* area of the k-th trapezoid; a constant series gives all zeros.
C12_CumulativeIntegration ==
    [][ /\ pc \in {"cell37anom", "cell39anom"} =>
              /\ pc' \in {"cell37cum", "cell39cum"}
              /\ Len(mean_smb') = Len(mean_smb)
              /\ AllNumbers(mean_smb) =>
                    /\ SumOver(mean_smb', 1..Len(mean_smb')) = Num(0)
                    /\ \A j, m \in 1..Len(mean_smb) :
                          Sub(mean_smb[j], mean_smb'[j]) = Sub(mean_smb[m], mean_smb'[m])
                    /\ (\A j \in 1..Len(mean_smb) : mean_smb[j] = mean_smb[1])
                          => \A j \in 1..Len(mean_smb') : mean_smb'[j] = Num(0)
        /\ pc \in {"cell37cum", "cell39cum"} =>
              /\ Len(mean_smb) = Len(time_smb)
              /\ Len(mean_smb') = Len(mean_smb) - 1
              /\ \A n \in 1..Len(mean_smb') :
                    mean_smb'[n] = IF n = 1 THEN TrapArea(mean_smb, time_smb, 1)
                                   ELSE Add(mean_smb'[n - 1],
                                            TrapArea(mean_smb, time_smb, n))
              /\ (\A j \in 1..Len(mean_smb) : mean_smb[j] = Num(0))
                    => \A j \in 1..Len(mean_smb') : mean_smb'[j] = Num(0)
      ]_vars

\* C12 witness: a series over three time steps of unequal length has been
\* integrated to two values, not all of them zero.
C12_Witness ==
    /\ pc = "cell39"
    /\ time_smb = UnevenAxis
    /\ Len(mean_smb) = 2
    /\ \E j \in 1..2 : IsNumber(mean_smb[j]) /\ mean_smb[j] # Num(0)

\* Whether cell-13 has classified record n.
Masked(n) == poly_mpl # <<>> /\ (pc = "cell13loop" => n < i)

\* C13: the mask of a classified record holds one boolean per planar point
\* of the record, in point order; against the square (0,0), (0,10), (10,10),
\* (10,0) it is TRUE for a point inside the square and FALSE for a point
\* outside it (points on the boundary are not among the inputs); and
\* classifying the record's points again with the same path gives the mask
\* the record holds, in every later state.
C13_FloatingIceMask ==
    \A n \in 1..Len(D6) : Masked(n) =>
        /\ Len(D6[n]["mask"]) = Len(D6[n]["x"])
        /\ poly_mpl = << <<0, 0>>, <<0, 10>>, <<10, 10>>, <<10, 0>> >>
        /\ \A j \in 1..Len(D6[n]["x"]) :
              LET px == D6[n]["x"][j]
                  py == D6[n]["y"][j]
              IN  /\ D6[n]["mask"][j] \in BOOLEAN
                  /\ ( /\ Less(Num(0), px) /\ Less(px, Num(10))
                       /\ Less(Num(0), py) /\ Less(py, Num(10)) )
                        => D6[n]["mask"][j] = TRUE
                  /\ ( \/ Less(px, Num(0)) \/ Less(Num(10), px)
                       \/ Less(py, Num(0)) \/ Less(Num(10), py) )
                        => D6[n]["mask"][j] = FALSE
        /\ D6[n]["mask"] = contains_points(poly_mpl, D6[n]["x"], D6[n]["y"])

\* C13 witness: a classified record with the point (5, 5) inside and the
\* point (15, 15) outside.
C13_Witness ==
    \E n \in 1..Len(D6) :
        /\ Masked(n)
        /\ \E j, m \in 1..Len(D6[n]["x"]) :
              /\ Query(n, j) = <<Num(5), Num(5)>>
              /\ D6[n]["mask"][j] = TRUE
              /\ Query(n, m) = <<Num(15), Num(15)>>
              /\ D6[n]["mask"][m] = FALSE

\* C14: in every state, all field sequences of every record of D6 (the
\* extracted datasets, x, y, mask, FAC_interp) have the same length.
C14_RecordShapeInvariant ==
    \A n \in 1..Len(D6) :
        \A d, e \in DOMAIN D6[n] : Len(D6[n][d]) = Len(D6[n][e])

\* Whether the dict tmp holds planar coordinates (lines 100-101 have run).
Projected(tmp) == {"x", "y"} \subseteq DOMAIN tmp

\* Whether line 104 has nothing left to do on the dict tmp.
Filtered(tmp) ==
    {"h_li", "atl06_quality_summary"} \subseteq DOMAIN tmp
        => IndexAssignNaN(tmp["h_li"], tmp["atl06_quality_summary"]) = tmp["h_li"]

\* Whether no dataset of the dict tmp, read from beam, holds a fill value
\* the dataset declares.
Normalized(tmp, beam) ==
    \A d \in DOMAIN beam.data : \A j \in 1..Len(tmp[d]) : tmp[d][j] \notin beam.fill[d]

\* The order of the steps on the records of D6: every record has been
\* normalized, projected (from normalized coordinates) and filtered; it is
\* classified before it is interpolated, interpolated before its h_MSL is
\* computed, and its h_MSL is computed before its thickness; a step that
\* has not begun has left its field as cell-5 allocated it.
RecordStepOrder ==
    \A n \in 1..Len(D6) :
        /\ Normalized(D6[n], SrcOf(n))
        /\ Projected(D6[n])
        /\ \A j \in 1..Len(D6[n]["x"]) :
              ( \/ At(SrcOf(n).data["longitude"], j) \in SrcOf(n).fill["longitude"]
                \/ At(SrcOf(n).data["latitude"], j) \in SrcOf(n).fill["latitude"] )
                  => IsNaN(D6[n]["x"][j]) \/ IsNaN(D6[n]["y"][j])
        /\ Filtered(D6[n])
        /\ ~Masked(n) => D6[n]["mask"] = empty_like(D6[n]["x"])
        /\ Interpolated(n) => Masked(n)
        /\ ~Interpolated(n) => D6[n]["FAC_interp"] = empty_like(D6[n]["x"])
        /\ n <= Len(h_MSL) => Interpolated(n)
        /\ n <= Len(thickness) => n <= Len(h_MSL)

\* C15 (as stated): normalization, then quality filtering, then planar
\* projection, then classification, interpolation, h_MSL, thickness: a
\* dict that is being built in cell-5 is filtered when it is projected.
C15_FilterThenProjection ==
    /\ RecordStepOrder
    /\ pc = "cell5if" => (Normalized(temp, files[k]) /\ ~Projected(temp))
    /\ pc = "cell5filter" => (Projected(temp) => Filtered(temp))

\* C15 (amended): normalization, then planar projection, then quality
\* filtering, then classification, interpolation, h_MSL, thickness: when
\* the filter is about to run in cell-5 the dict is projected and every
\* extracted field is still as normalization left it.
C15_ProjectionThenFilter ==
    /\ RecordStepOrder
    /\ pc = "cell5if" => (Normalized(temp, files[k]) /\ ~Projected(temp))
    /\ pc = "cell5filter" =>
          /\ Projected(temp)
          /\ Normalized(temp, files[k])
          /\ \A d \in DOMAIN files[k].data :
                /\ Len(temp[d]) = Len(files[k].data[d])
                /\ \A j \in 1..Len(temp[d]) :
                      ~IsNaN(temp[d][j]) => temp[d][j] = files[k].data[d][j]
                /\ \A j \in 1..Len(temp[d]) :
                      IsNaN(temp[d][j]) => files[k].data[d][j] \in files[k].fill[d] \cup {NaN}

\* C15 witness: a dict is projected while the quality filter has yet to
\* blank one of its heights.
C15_Witness ==
    /\ pc = "cell5filter"
    /\ Projected(temp)
    /\ ~Filtered(temp)

\* C16: the quality filter (line 104) changes h_li only at samples flagged
\* low-quality: a sample whose flag is 0 keeps the h_li normalization left
\* it, and every other field of the dict is left as it was.
C16_QualityFilterFrame ==
    [][ (pc = "cell5filter" /\ pc' = "cell5") =>
            /\ DOMAIN temp' = DOMAIN temp
            /\ \A d \in DOMAIN temp \ {"h_li"} : temp'[d] = temp[d]
            /\ Len(temp'["h_li"]) = Len(temp["h_li"])
            /\ \A j \in 1..Len(temp["h_li"]) :
                  (j <= Len(temp["atl06_quality_summary"])
                      /\ temp["atl06_quality_summary"][j] = Num(0))
                    => temp'["h_li"][j] = temp["h_li"][j]
      ]_vars

\* The fields record n holds, as a function of the beam it was extracted
\* from, the reference data and the steps it has gone through.
OwnFields(n) ==
    LET base == QualityFilter(WithPlanar(ReadTemp(SrcOf(n))))
        pts == [j \in 1..Len(base["x"]) |-> <<base["x"][j], base["y"][j]>>]
    IN  [base EXCEPT
            !["mask"] = IF Masked(n) THEN contains_points(poly_mpl, base["x"], base["y"])
                        ELSE @,
            !["FAC_interp"] = IF Interpolated(n) THEN griddata(xy, mean_fac_byrd, pts)
                              ELSE @]

\* C17: every record of D6 holds what its own beam, the reference data and
\* the steps it has gone through determine, whatever the other beams of the
\* run are and wherever it stands in D6; a step changes no record but the
\* one its loop is at; D6 only grows, by one record per beam, and the h_MSL
\* and thickness of a record stay what they were computed to be.
C17_BeamIndependence ==
    /\ [](/\ Len(D6) <= Len(NonEmptyBeams)
          /\ \A n \in 1..Len(D6) : D6[n] = OwnFields(n))
    /\ [][ /\ Len(D6') >= Len(D6)
           /\ Len(D6') <= Len(D6) + 1
           /\ \A n \in 1..Len(D6) :
                 (Masked(n)' # Masked(n) \/ D6'[n] # D6[n])
                    => (n = i /\ pc \in {"cell13loop", "cell31"})
           /\ \A n \in 1..Len(h_MSL) : h_MSL'[n] = h_MSL[n]
           /\ \A n \in 1..Len(thickness) : thickness'[n] = thickness[n]
         ]_vars

\* C17 witness: of two records extracted from different beams, the first
\* has been interpolated and the second has not.
C17_Witness ==
    /\ pc = "cell31"
    /\ i = 2
    /\ Len(D6) >= 2
    /\ SrcOf(1) # SrcOf(2)
    /\ D6[1]["FAC_interp"] # empty_like(D6[1]["x"])
    /\ D6[2]["FAC_interp"] = empty_like(D6[2]["x"])

\* C18: once cell-13 has selected the polygon and built its path, the
\* global name `polygon`, the path poly_mpl and the firn-air grid keep
\* their value through every later step, so that `polygon` is the polygon
\* the mask was built from whenever a later cell uses it.
C18_ReferenceDataReadOnly ==
    /\ [][ /\ FirnAir' = FirnAir
           /\ poly_mpl # <<>> => (poly_mpl' = poly_mpl /\ polygon' = polygon)
         ]_vars
    /\ [](poly_mpl # <<>> => (polygon = shapefile_geometry[76] /\ poly_mpl = Path(polygon)))

=============================================================================
